---- MODULE Spec2Model ----
(***************************************************************************)
(* Model of CrosswordCreator (generate.py): the Domain Store, node         *)
(* consistency, arc revision, ac3, the consistency predicate, the two      *)
(* ordering heuristics and the recursive backtracking search.              *)
(*                                                                         *)
(* Words are sequences of letters; Python's 0-based index k of a word is   *)
(* position k+1 of the sequence.  Python sets and dicts built from sets    *)
(* iterate in an order the build does not fix (string hashing is           *)
(* randomised), so every iteration over a set is a choice of one of its    *)
(* permutations.                                                           *)
(***************************************************************************)
EXTENDS Integers, Sequences, FiniteSets, TLC

VARIABLES cw, words, domains, assignment, stack, pc, result, last

vars == <<cw, words, domains, assignment, stack, pc, result, last>>

----------------------------------------------------------------------------
(* Bounds of the model *)

\* largest vocabulary handed to the constructor
MaxWords == 3

----------------------------------------------------------------------------
(* Inputs: the crossword object the constructor receives *)

\* the words the vocabulary file may hold
WordUniverse ==
    {<<"a", "b">>, <<"b", "a">>, <<"a", "a">>,
     <<"a", "a", "b">>, <<"a", "b", "b">>, <<"b", "a", "b">>, <<"b", "b", "a">>}

Vocabularies == {S \in SUBSET WordUniverse : Cardinality(S) <= MaxWords}

\* overlaps[x, y] is None when the two slots share no cell
None == <<>>

\* One ACROSS slot of length 3 and one DOWN slot of length 3; the cell
\* shared is index 1 of ACROSS and index 0 of DOWN.
Cross2 ==
    [variables |-> {"A", "D"},
     length    |-> [v \in {"A", "D"} |-> 3],
     overlaps  |-> [p \in {<<"A", "D">>, <<"D", "A">>} |->
                      IF p = <<"A", "D">> THEN <<1, 0>> ELSE <<0, 1>>]]

\* ACROSS slot A of length 3 in row 0; DOWN slots D1, D2 of length 2 in
\* columns 0 and 2, both starting in row 0.
Comb3 ==
    [variables |-> {"A", "D1", "D2"},
     length    |-> [v \in {"A", "D1", "D2"} |-> IF v = "A" THEN 3 ELSE 2],
     overlaps  |-> [p \in {q \in {"A", "D1", "D2"} \X {"A", "D1", "D2"} : q[1] # q[2]} |->
                      CASE p = <<"A", "D1">> -> <<0, 0>>
                        [] p = <<"D1", "A">> -> <<0, 0>>
                        [] p = <<"A", "D2">> -> <<2, 0>>
                        [] p = <<"D2", "A">> -> <<0, 2>>
                        [] OTHER -> None]]

\* ACROSS slot A1 of length 2 in row 0, ACROSS slot A2 of length 3 in
\* row 2, DOWN slot D of length 3 in column 0 crossing both.
Chain3 ==
    [variables |-> {"A1", "A2", "D"},
     length    |-> [v \in {"A1", "A2", "D"} |-> IF v = "A1" THEN 2 ELSE 3],
     overlaps  |-> [p \in {q \in {"A1", "A2", "D"} \X {"A1", "A2", "D"} : q[1] # q[2]} |->
                      CASE p = <<"A1", "D">> -> <<0, 0>>
                        [] p = <<"D", "A1">> -> <<0, 0>>
                        [] p = <<"A2", "D">> -> <<0, 2>>
                        [] p = <<"D", "A2">> -> <<2, 0>>
                        [] OTHER -> None]]

Structures == {Cross2, Comb3, Chain3}

\* crossword.neighbors(var): the variables whose slot crosses var's
neighbors(var) == {v \in cw.variables : v # var /\ cw.overlaps[v, var] # None}

----------------------------------------------------------------------------
(* Helpers for Python containers *)

\* the iteration orders of a set
RECURSIVE Perms(_)
Perms(S) ==
    IF S = {} THEN {<<>>}
    ELSE UNION {{<<e>> \o p : p \in Perms(S \ {e})} : e \in S}

\* sorted(items, key=...): stable, so the result is an iteration order of S
\* rearranged into non-decreasing key order
Sorted(S, key) ==
    {p \in Perms(S) : \A k \in 1..(Len(p) - 1) : key[p[k]] <= key[p[k + 1]]}

\* the dict with no key
EmptyAssignment == [v \in {} |-> <<>>]

\* assignment[variable] = value
Put(a, variable, value) ==
    [k \in (DOMAIN a) \cup {variable} |-> IF k = variable THEN value ELSE a[k]]

\* removes nothing
Pop_nothing(a, variable) == a

\* assignment.pop(variable, None)
Pop(a, variable) == [k \in (DOMAIN a) \ {variable} |-> a[k]]

\* the partial assignments a caller can build from the vocabulary
Assignments ==
    UNION {[K -> words] : K \in SUBSET cw.variables}

\* the values an assignment handed to assignment_complete may hold: the
\* vocabulary words and the empty string
AssignmentsWithEmpty ==
    UNION {[K -> words \cup {<<>>}] : K \in SUBSET cw.variables}

\* the record of a method call: the method, its arguments, the Domain Store
\* before it, its return value, the arcs it ran revise on, and the method
\* called before it
FirstCall ==
    [op |-> "none", x |-> "", y |-> "", pre |-> domains, arg |-> EmptyAssignment,
     ret |-> FALSE, revised |-> {}, prev |-> "none"]

NoCall == [FirstCall EXCEPT !.prev = last.op]

----------------------------------------------------------------------------
(* enforce_node_consistency *)

\* removes only the words that are too long
enforce_node_consistency_too_long(d) ==
    [var \in DOMAIN d |->
        LET removes == {word \in d[var] : Len(word) > cw.length[var]}
        IN  d[var] \ removes]

enforce_node_consistency(d) ==
    [var \in DOMAIN d |->
        LET removes == {word \in d[var] : Len(word) # cw.length[var]}
        IN  d[var] \ removes]

----------------------------------------------------------------------------
(* revise *)

\* the inner loop over self.domains[y]: breakout is set
Breakout(valuex, x, y, d) ==
    IF cw.overlaps[x, y] = None
    THEN \E valuey \in d[y] : valuex # valuey
    ELSE LET i == cw.overlaps[x, y][1]
             j == cw.overlaps[x, y][2]
         IN  \E valuey \in d[y] : valuex # valuey /\ valuex[i + 1] = valuey[j + 1]

\* the outer loop over self.domains[x] in iteration order `order`: the
\* first value with breakout set leaves the loop
RECURSIVE Removes(_, _, _, _)
Removes(order, x, y, d) ==
    IF order = <<>> THEN {}
    ELSE IF Breakout(Head(order), x, y, d) THEN {}
    ELSE {Head(order)} \cup Removes(Tail(order), x, y, d)

\* sets changed as soon as the loop over domain(x) is entered
revise_changed_on_entry(x, y, order, d) ==
    LET removes == Removes(order, x, y, d)
    IN  [domains |-> [d EXCEPT ![x] = @ \ removes],
         changed |-> order # <<>>]

revise(x, y, order, d) ==
    LET removes == Removes(order, x, y, d)
    IN  [domains |-> [d EXCEPT ![x] = @ \ removes],
         changed |-> removes # {}]

----------------------------------------------------------------------------
(* ac3 *)

\* `while (changed:=False):` binds changed to False and tests it
WhileCondition == FALSE

\* the argument arcs: None (the default), or a list of arcs
ArcsNone == [given |-> FALSE, arcs |-> {}]

ArcsAll == [given |-> TRUE, arcs |-> {p \in cw.variables \X cw.variables : p[1] # p[2]}]

\* scans every arc once, against the domains it started from, and stops
ac3_single_pass(arcs, d) ==
    LET after == [x \in DOMAIN d |->
                    {wx \in d[x] :
                        \A y \in neighbors(x) :
                            \E wy \in d[y] :
                                wx[cw.overlaps[x, y][1] + 1] = wy[cw.overlaps[x, y][2] + 1]}]
    IN  [domains |-> after,
         revised |-> {p \in (DOMAIN d) \X (DOMAIN d) : p[1] # p[2]},
         ret     |-> \E v \in DOMAIN after : after[v] = {}]

\* neither while loop is entered, whichever branch of `arcs==None` is taken
ac3(arcs, d) ==
    LET after == IF WhileCondition THEN [v \in DOMAIN d |-> {}] ELSE d
    IN  [domains |-> after,
         revised |-> IF WhileCondition THEN arcs.arcs ELSE {},
         ret     |-> \E v \in DOMAIN after : after[v] = {}]

----------------------------------------------------------------------------
(* assignment_complete, consistent *)

\* forgets to look at the values
assignment_complete_keys_only(a) ==
    DOMAIN a = cw.variables

\* forgets to compare the keys with the variables
assignment_complete_values_only(a) ==
    \A v \in DOMAIN a : a[v] # <<>>

assignment_complete(a) ==
    /\ DOMAIN a = cw.variables
    /\ \A v \in DOMAIN a : a[v] # <<>>

\* accepts every assignment
consistent_always(a) == TRUE

\* also demands that no two variables carry the same word
consistent_distinct(a) ==
    /\ \A var \in DOMAIN a : \A other \in (DOMAIN a) \ {var} : a[var] # a[other]
    /\ \A var \in DOMAIN a :
        \A neighbor \in neighbors(var) \cap DOMAIN a :
            LET overlap == cw.overlaps[var, neighbor]
            IN  ~ (a[var][overlap[1] + 1] # a[neighbor][overlap[2] + 1])

consistent(a) ==
    \A var \in DOMAIN a :
        \A neighbor \in neighbors(var) \cap DOMAIN a :
            LET overlap == cw.overlaps[var, neighbor]
            IN  ~ (a[var][overlap[1] + 1] # a[neighbor][overlap[2] + 1])

----------------------------------------------------------------------------
(* order_domain_values, select_unassigned_variable *)

num_elim(word, var, a) ==
    LET open == neighbors(var) \ DOMAIN a
        hits == {nw \in UNION {{<<neighbor, wordn>> : wordn \in domains[neighbor]} : neighbor \in open} :
                    LET overlap == cw.overlaps[var, nw[1]]
                    IN  word[overlap[1] + 1] # nw[2][overlap[2] + 1]}
    IN  Cardinality(hits)

\* puts the value that rules out most first
order_domain_values_descending(var, a) ==
    LET key == [word \in domains[var] |-> 0 - num_elim(word, var, a)]
    IN  Sorted(domains[var], key)

order_domain_values(var, a) ==
    LET key == [word \in domains[var] |-> num_elim(word, var, a)]
    IN  Sorted(domains[var], key)

\* the values it may return; {} when indexing the empty list raises
select_unassigned_variable(a) ==
    LET unassigned == cw.variables \ DOMAIN a
        size   == [var \in unassigned |-> Cardinality(domains[var])]
        degree == [var \in unassigned |-> Cardinality(neighbors(var))]
    IN  UNION {IF Len(rv) = 1 \/ size[rv[1]] # size[rv[2]]
               THEN {rv[1]}
               ELSE {dg[Len(dg)] : dg \in Sorted(unassigned, degree)}
               : rv \in Sorted(unassigned, size) \ {<<>>}}

----------------------------------------------------------------------------
(* The object after __init__ *)

Init ==
    /\ cw \in Structures
    /\ words \in Vocabularies
    /\ domains = [var \in cw.variables |-> words]
    /\ assignment = EmptyAssignment
    /\ stack = <<>>
    /\ pc = "idle"
    /\ result = [kind |-> "pending", value |-> EmptyAssignment]
    /\ last = FirstCall

----------------------------------------------------------------------------
(* Calls of the single methods.  revise and ac3 are reached after          *)
(* enforce_node_consistency has run (solve), which is also what keeps the  *)
(* indices of the overlaps inside the words they read.                     *)

NodeConsistent(d) == \A v \in DOMAIN d : \A w \in d[v] : Len(w) = cw.length[v]

CallEnforceNodeConsistency ==
    /\ pc = "idle"
    /\ domains' = enforce_node_consistency(domains)
    /\ last' = [NoCall EXCEPT !.op = "enforce_node_consistency"]
    /\ UNCHANGED <<cw, words, assignment, stack, pc, result>>

CallRevise ==
    /\ pc = "idle"
    /\ \E x \in cw.variables, y \in cw.variables :
        /\ x # y
        /\ NodeConsistent(domains)
        /\ \E order \in Perms(domains[x]) :
            LET r == revise(x, y, order, domains)
            IN  /\ domains' = r.domains
                /\ last' = [NoCall EXCEPT !.op = "revise", !.x = x, !.y = y, !.ret = r.changed]
    /\ UNCHANGED <<cw, words, assignment, stack, pc, result>>

CallAc3 ==
    /\ pc = "idle"
    /\ NodeConsistent(domains)
    /\ \E arcs \in {ArcsNone, ArcsAll} :
        LET r == ac3(arcs, domains)
        IN  /\ domains' = r.domains
            /\ last' = [NoCall EXCEPT !.op = "ac3", !.x = IF arcs.given THEN "arcs" ELSE "None",
                                      !.ret = r.ret, !.revised = r.revised]
    /\ UNCHANGED <<cw, words, assignment, stack, pc, result>>

CallConsistent ==
    /\ pc = "idle"
    /\ \E a \in Assignments :
        /\ \A v \in DOMAIN a : Len(a[v]) = cw.length[v]
        /\ last' = [NoCall EXCEPT !.op = "consistent", !.arg = a, !.ret = consistent(a)]
    /\ UNCHANGED <<cw, words, domains, assignment, stack, pc, result>>

CallAssignmentComplete ==
    /\ pc = "idle"
    /\ \E a \in AssignmentsWithEmpty :
        last' = [NoCall EXCEPT !.op = "assignment_complete", !.arg = a,
                               !.ret = assignment_complete(a)]
    /\ UNCHANGED <<cw, words, domains, assignment, stack, pc, result>>

----------------------------------------------------------------------------
(* solve and backtrack *)

\* solve(): enforce_node_consistency(), ac3(), then the call backtrack(dict())
Solve ==
    /\ pc = "idle"
    /\ domains' = ac3(ArcsNone, enforce_node_consistency(domains)).domains
    /\ assignment' = EmptyAssignment
    /\ stack' = <<>>
    /\ pc' = "enter"
    /\ last' = [NoCall EXCEPT !.op = "solve"]
    /\ UNCHANGED <<cw, words, result>>

\* entry of backtrack(assignment) up to the head of its for loop
BacktrackEnter ==
    /\ pc = "enter"
    /\ IF assignment_complete(assignment)
       THEN /\ result' = [kind |-> "assignment", value |-> assignment]
            /\ pc' = "done"
            /\ UNCHANGED stack
       ELSE IF select_unassigned_variable(assignment) = {}
       THEN /\ pc' = "raised"
            /\ UNCHANGED <<stack, result>>
       ELSE \E variable \in select_unassigned_variable(assignment) :
            \E values \in order_domain_values(variable, assignment) :
                /\ stack' = Append(stack, [variable |-> variable, values |-> values,
                                           order |-> values, entry |-> assignment])
                /\ pc' = "loop"
                /\ UNCHANGED result
    /\ UNCHANGED <<cw, words, domains, assignment, last>>

\* gives the variable up at its first inconsistent value
BacktrackTry_return_on_inconsistent ==
    /\ pc = "loop"
    /\ stack[Len(stack)].values # <<>>
    /\ LET frame == stack[Len(stack)]
           value == Head(frame.values)
           test  == Put(assignment, frame.variable, value)
       IN  IF consistent(test)
           THEN /\ assignment' = Put(assignment, frame.variable, value)
                /\ pc' = "enter"
                /\ UNCHANGED stack
           ELSE /\ assignment' = Pop(assignment, frame.variable)
                /\ stack' = [stack EXCEPT ![Len(stack)].values = <<>>]
                /\ UNCHANGED pc
    /\ UNCHANGED <<cw, words, domains, result, last>>

\* one iteration of the for loop, up to the recursive call if it is made
BacktrackTry ==
    /\ pc = "loop"
    /\ stack[Len(stack)].values # <<>>
    /\ LET frame == stack[Len(stack)]
           value == Head(frame.values)
           test  == Put(assignment, frame.variable, value)
       IN  IF consistent(test)
           THEN /\ assignment' = Put(assignment, frame.variable, value)
                /\ pc' = "enter"
                /\ UNCHANGED stack
           ELSE /\ assignment' = Pop(assignment, frame.variable)
                /\ stack' = [stack EXCEPT ![Len(stack)].values = Tail(@)]
                /\ UNCHANGED pc
    /\ UNCHANGED <<cw, words, domains, result, last>>

\* the caller goes on with the value that has just failed
BacktrackReturnNone_retry ==
    /\ pc = "loop"
    /\ stack[Len(stack)].values = <<>>
    /\ LET rest == SubSeq(stack, 1, Len(stack) - 1)
       IN  IF rest = <<>>
           THEN /\ result' = [kind |-> "None", value |-> EmptyAssignment]
                /\ pc' = "done"
                /\ stack' = rest
                /\ UNCHANGED assignment
           ELSE /\ assignment' = Pop(assignment, rest[Len(rest)].variable)
                /\ stack' = rest
                /\ UNCHANGED <<pc, result>>
    /\ UNCHANGED <<cw, words, domains, last>>

\* the caller keeps its entry when the recursive call has failed
BacktrackReturnNone_no_pop ==
    /\ pc = "loop"
    /\ stack[Len(stack)].values = <<>>
    /\ LET rest == SubSeq(stack, 1, Len(stack) - 1)
       IN  IF rest = <<>>
           THEN /\ result' = [kind |-> "None", value |-> EmptyAssignment]
                /\ pc' = "done"
                /\ stack' = rest
                /\ UNCHANGED assignment
           ELSE /\ assignment' = assignment
                /\ stack' = [rest EXCEPT ![Len(rest)].values = Tail(@)]
                /\ UNCHANGED <<pc, result>>
    /\ UNCHANGED <<cw, words, domains, last>>

\* the for loop is exhausted: return None; the caller pops its own entry
\* and goes on with its next value
BacktrackReturnNone ==
    /\ pc = "loop"
    /\ stack[Len(stack)].values = <<>>
    /\ LET rest == SubSeq(stack, 1, Len(stack) - 1)
       IN  IF rest = <<>>
           THEN /\ result' = [kind |-> "None", value |-> EmptyAssignment]
                /\ pc' = "done"
                /\ stack' = rest
                /\ UNCHANGED assignment
           ELSE /\ assignment' = Pop(assignment, rest[Len(rest)].variable)
                /\ stack' = [rest EXCEPT ![Len(rest)].values = Tail(@)]
                /\ UNCHANGED <<pc, result>>
    /\ UNCHANGED <<cw, words, domains, last>>

\* the methods that write the Domain Store, and solve
Next ==
    \/ CallEnforceNodeConsistency
    \/ CallRevise
    \/ CallAc3
    \/ Solve
    \/ BacktrackEnter
    \/ BacktrackTry
    \/ BacktrackReturnNone

Spec == Init /\ [][Next]_vars

\* solve() is sequential code: once called, it keeps taking its next step
SpecFair ==
    /\ Spec
    /\ WF_vars(BacktrackEnter)
    /\ WF_vars(BacktrackTry)
    /\ WF_vars(BacktrackReturnNone)

\* the two predicates, which read their argument and write nothing
NextPredicates ==
    \/ CallConsistent
    \/ CallAssignmentComplete

SpecPredicates == Init /\ [][NextPredicates]_vars

----------------------------------------------------------------------------
(* Properties *)

\* x and y cross and the words agree on the shared cell
Agree(x, wx, y, wy) == wx[cw.overlaps[x, y][1] + 1] = wy[cw.overlaps[x, y][2] + 1]

Crossing == {p \in cw.variables \X cw.variables : p[1] # p[2] /\ cw.overlaps[p[1], p[2]] # None}

\* the complete assignments of words from the sets c[v] that have the right
\* lengths and agree on every shared cell
Solutions(c) ==
    {a \in [cw.variables -> words] :
        /\ \A v \in cw.variables : a[v] \in c[v] /\ Len(a[v]) = cw.length[v]
        /\ \A p \in Crossing : Agree(p[1], a[p[1]], p[2], a[p[2]])}

\* the Domain Store is what solve() makes of a newly constructed creator
FreshStore ==
    domains = [v \in cw.variables |-> {w \in words : Len(w) = cw.length[v]}]

\* C1: when solve() returns an assignment, it maps every variable to one
\* non-empty vocabulary word of the variable's length, and the words of
\* every two crossing variables agree on the shared cell.
C1_SolveReturnsSolution ==
    (pc = "done" /\ result.kind = "assignment") =>
        /\ DOMAIN result.value = cw.variables
        /\ \A v \in cw.variables :
            /\ result.value[v] \in words
            /\ result.value[v] # <<>>
            /\ Len(result.value[v]) = cw.length[v]
        /\ \A p \in Crossing : Agree(p[1], result.value[p[1]], p[2], result.value[p[2]])

\* solve() returned an assignment for three slots, two of them crossing a third
C1_Witness ==
    /\ pc = "done"
    /\ result.kind = "assignment"
    /\ Cardinality(cw.variables) = 3
    /\ \E v \in cw.variables : Cardinality(domains[v]) >= 2

\* C2: solve() returns None exactly when no complete assignment of
\* vocabulary words of the right lengths agrees on every shared cell (and,
\* whatever the Domain Store held when solve() was called, exactly when
\* none can be drawn from the domains).
C2_SolveComplete ==
    pc = "done" =>
        /\ FreshStore =>
            (result.kind = "None" <=> Solutions([v \in cw.variables |-> words]) = {})
        /\ result.kind = "None" <=> Solutions(domains) = {}

\* solve() on a new creator returned a solution after it had given up a
\* value of some variable and gone on with that variable's next value
C2_Witness ==
    /\ pc = "done"
    /\ FreshStore
    /\ result.kind = "assignment"
    /\ \E k \in 1..Len(stack) :
        Len(stack[k].values) < Cardinality(domains[stack[k].variable])

\* C3: when a domain is empty after node consistency, solve() raises no
\* error and returns None, never an assignment.
C3_EmptyDomainGivesNone ==
    (\E v \in cw.variables : domains[v] = {}) =>
        /\ pc # "raised"
        /\ pc = "done" => result.kind = "None"

\* solve() has returned None with one domain empty and another not
C3_Witness ==
    /\ pc = "done"
    /\ result.kind = "None"
    /\ \E v \in cw.variables : domains[v] = {}
    /\ \E v \in cw.variables : domains[v] # {}

\* C4: ac3() returns True exactly when no domain is empty when it returns.
C4_Ac3TrueIffNoEmptyDomain ==
    last.op = "ac3" => (last.ret <=> \A v \in cw.variables : domains[v] # {})

ArcConsistent(d) ==
    \A p \in Crossing :
        \A wx \in d[p[1]] : \E wy \in d[p[2]] : Agree(p[1], wx, p[2], wy)

\* C5: after ac3() with the default arcs returns with no empty domain,
\* every word of every domain has a supporting word in the domain of every
\* crossing variable.
C5_Ac3ArcConsistent ==
    (/\ last.op = "ac3"
     /\ last.x = "None"
     /\ \A v \in cw.variables : domains[v] # {}) => ArcConsistent(domains)

\* C6: when two crossing variables each hold a single word and the two
\* words disagree on the shared cell, ac3() reports failure and leaves a
\* domain empty.
C6_Ac3FailurePropagation ==
    (/\ last.op = "ac3"
     /\ \E p \in Crossing :
            \E wx \in last.pre[p[1]], wy \in last.pre[p[2]] :
                /\ last.pre[p[1]] = {wx}
                /\ last.pre[p[2]] = {wy}
                /\ ~ Agree(p[1], wx, p[2], wy))
    => /\ last.ret = FALSE
       /\ \E v \in cw.variables : domains[v] = {}

\* C7: revise(x, y) on two variables that do not cross removes nothing and
\* returns False.
C7_ReviseNoOverlapKeeps ==
    (last.op = "revise" /\ cw.overlaps[last.x, last.y] = None) =>
        /\ domains = last.pre
        /\ last.ret = FALSE

\* C8: after revise(x, y) on two crossing variables every word left in
\* domain(x) has a word in domain(y) agreeing on the shared cell.
C8_ReviseLeavesSupported ==
    (last.op = "revise" /\ cw.overlaps[last.x, last.y] # None) =>
        \A wx \in domains[last.x] :
            \E wy \in domains[last.y] : Agree(last.x, wx, last.y, wy)

\* C9: enforce_node_consistency() leaves in every domain exactly the words
\* of the variable's length that were there before, and changes nothing in
\* a store that is already node consistent.
C9_NodeConsistency ==
    last.op = "enforce_node_consistency" =>
        /\ \A v \in cw.variables :
            /\ \A w \in last.pre[v] : w \in domains[v] <=> Len(w) = cw.length[v]
            /\ domains[v] \subseteq last.pre[v]
        /\ NodeConsistent(last.pre) => domains = last.pre

\* enforce_node_consistency() removed a word from a domain and kept another
C9_Witness ==
    /\ last.op = "enforce_node_consistency"
    /\ \E v \in cw.variables :
        /\ domains[v] # {}
        /\ domains[v] # last.pre[v]

\* C10: consistent(assignment) is True exactly when every two assigned
\* crossing variables agree on the shared cell; variables that are not
\* assigned or do not cross have no say, and the Domain Store is untouched.
C10_ConsistentPredicate ==
    last.op = "consistent" =>
        /\ last.ret <=>
            \A p \in Crossing :
                (p[1] \in DOMAIN last.arg /\ p[2] \in DOMAIN last.arg)
                    => Agree(p[1], last.arg[p[1]], p[2], last.arg[p[2]])
        /\ domains = last.pre

\* consistent() returned True for a complete assignment that gives the same
\* word to two variables that do not cross
C10_Witness ==
    /\ last.op = "consistent"
    /\ last.ret
    /\ \E x \in DOMAIN last.arg, y \in DOMAIN last.arg :
        /\ x # y
        /\ cw.overlaps[x, y] = None
        /\ last.arg[x] = last.arg[y]
    /\ DOMAIN last.arg = cw.variables

\* C11: assignment_complete(assignment) is True exactly when the keys are
\* all the crossword's variables and no value is the empty word.
C11_AssignmentComplete ==
    last.op = "assignment_complete" =>
        (last.ret <=>
            /\ \A v \in cw.variables : v \in DOMAIN last.arg
            /\ \A v \in DOMAIN last.arg : v \in cw.variables /\ Len(last.arg[v]) > 0)

\* assignment_complete returned False for an assignment that has every
\* variable as a key, one of them with the empty word
C11_Witness ==
    /\ last.op = "assignment_complete"
    /\ ~ last.ret
    /\ DOMAIN last.arg = cw.variables
    /\ \E v \in cw.variables : last.arg[v] = <<>>
    /\ \E v \in cw.variables : last.arg[v] # <<>>

\* C12: once backtrack has been called on the empty assignment by solve(),
\* the search comes to its end: solve() returns an assignment or None.
C12_BacktrackTerminates == (pc = "enter") ~> (pc = "done")

\* the search has gone through three crossing slots with words in every
\* domain and has returned None
C12_Witness ==
    /\ pc = "done"
    /\ result.kind = "None"
    /\ Cardinality(cw.variables) = 3
    /\ \A v \in cw.variables : domains[v] # {}

\* the variables a frame's call of select_unassigned_variable chose from
Unassigned(frame) == cw.variables \ DOMAIN frame.entry

\* C13: select_unassigned_variable returns an unassigned variable whose
\* domain is smallest, and among the unassigned variables with a domain of
\* that size one with the most neighbours.
C13_SelectMinRemainingThenDegree ==
    \A k \in 1..Len(stack) :
        LET v    == stack[k].variable
            tied == {u \in Unassigned(stack[k]) :
                        Cardinality(domains[u]) = Cardinality(domains[v])}
        IN  /\ v \in Unassigned(stack[k])
            /\ \A u \in Unassigned(stack[k]) :
                    Cardinality(domains[v]) <= Cardinality(domains[u])
            /\ \A u \in tied :
                    Cardinality(neighbors(u)) <= Cardinality(neighbors(v))

\* the pairs (unassigned neighbour, word of its domain) that word, put in
\* var, disagrees with on the shared cell
RuledOut(word, var, a) ==
    {nw \in (cw.variables \ DOMAIN a) \X WordUniverse :
        /\ <<var, nw[1]>> \in Crossing
        /\ nw[2] \in domains[nw[1]]
        /\ ~ Agree(var, word, nw[1], nw[2])}

\* C14: order_domain_values returns every word of domain(var) exactly once,
\* in non-decreasing order of the number of words of unassigned
\* neighbours' domains it disagrees with; assigned neighbours do not count.
C14_OrderDomainValues ==
    \A k \in 1..Len(stack) :
        LET f == stack[k]
        IN  /\ Len(f.order) = Cardinality(domains[f.variable])
            /\ {f.order[n] : n \in 1..Len(f.order)} = domains[f.variable]
            /\ \A n \in 1..(Len(f.order) - 1) :
                    Cardinality(RuledOut(f.order[n], f.variable, f.entry))
                        <= Cardinality(RuledOut(f.order[n + 1], f.variable, f.entry))

\* order_domain_values ordered two words that rule out different numbers
\* of words, for a variable one neighbour of which was assigned and
\* another not
C14_Witness ==
    \E k \in 1..Len(stack) :
        LET f == stack[k]
        IN  /\ neighbors(f.variable) \cap DOMAIN f.entry # {}
            /\ neighbors(f.variable) \ DOMAIN f.entry # {}
            /\ \E n \in 1..(Len(f.order) - 1) :
                    Cardinality(RuledOut(f.order[n], f.variable, f.entry))
                        < Cardinality(RuledOut(f.order[n + 1], f.variable, f.entry))

\* C15: ac3() returns only when no arc is left pending or a domain is
\* empty: every arc of its initial queue has been handed to revise, and so
\* have the arcs re-enqueued after a removal.
C15_Ac3DrainsQueue ==
    last.op = "ac3" =>
        \/ \E v \in cw.variables : domains[v] = {}
        \/ \A p \in Crossing : p \in last.revised

\* C16: a call of ac3() right after a call of ac3() removes no value from
\* any domain.
C16_Ac3Idempotent ==
    (last.op = "ac3" /\ last.prev = "ac3") => domains = last.pre

\* ac3() was called twice running on a store with no empty domain that is
\* not arc consistent
C16_Witness ==
    /\ last.op = "ac3"
    /\ last.prev = "ac3"
    /\ \A v \in cw.variables : domains[v] # {}
    /\ ~ ArcConsistent(domains)

\* C17: revise(x, y) on two crossing variables keeps every word of
\* domain(x) that agrees with some word of domain(y) on the shared cell,
\* the same word included.
C17_ReviseKeepsSupported ==
    (last.op = "revise" /\ cw.overlaps[last.x, last.y] # None) =>
        \A wx \in last.pre[last.x] :
            (\E wy \in last.pre[last.y] : Agree(last.x, wx, last.y, wy))
                => wx \in domains[last.x]

\* C18: revise(x, y) leaves every domain but domain(x) as it was, only
\* takes words out of domain(x), and returns True exactly when it took one.
C18_ReviseFrame ==
    last.op = "revise" =>
        /\ \A v \in cw.variables \ {last.x} : domains[v] = last.pre[v]
        /\ domains[last.x] \subseteq last.pre[last.x]
        /\ last.ret <=> domains[last.x] # last.pre[last.x]

\* revise(x, y) took a word out of domain(x), left another in, and
\* returned True
C18_Witness ==
    /\ last.op = "revise"
    /\ last.ret
    /\ domains[last.x] # {}
    /\ domains[last.x] # last.pre[last.x]
    /\ domains[last.y] # {}

\* C19: when a call of backtrack returns None the assignment is what it
\* was when the call was entered; when solve() returns None it is empty.
C19_RollbackOnDeadEnd ==
    /\ (pc = "loop" /\ stack[Len(stack)].values = <<>>)
            => assignment = stack[Len(stack)].entry
    /\ (pc = "done" /\ result.kind = "None") => assignment = EmptyAssignment

\* a call of backtrack two levels down returns None after it has tried
\* values of its variable
C19_Witness ==
    /\ pc = "loop"
    /\ Len(stack) >= 2
    /\ stack[Len(stack)].values = <<>>
    /\ stack[Len(stack)].order # <<>>
    /\ stack[Len(stack)].entry # EmptyAssignment

\* C20: at every entry of backtrack at depth k the assignment has exactly
\* k variables, each with a word of its own domain, and is consistent; the
\* depth never exceeds the number of variables.
C20_OneVariablePerLevel ==
    /\ Len(stack) <= Cardinality(cw.variables)
    /\ pc = "enter" =>
        /\ Cardinality(DOMAIN assignment) = Len(stack)
        /\ \A v \in DOMAIN assignment : v \in cw.variables /\ assignment[v] \in domains[v]
        /\ \A p \in Crossing :
                (p[1] \in DOMAIN assignment /\ p[2] \in DOMAIN assignment)
                    => Agree(p[1], assignment[p[1]], p[2], assignment[p[2]])
        /\ \A k \in 1..Len(stack) : Cardinality(DOMAIN stack[k].entry) = k - 1

\* backtrack is entered at depth 2 after a value of the second variable
\* had been given up
C20_Witness ==
    /\ pc = "enter"
    /\ Len(stack) = 2
    /\ Len(stack[2].values) < Len(stack[2].order)

====
